---- MODULE Spec2Model ----
(***************************************************************************)
(* Model of poetry's Exporter (src/poetry/utils/exporter.py): one call of  *)
(* Exporter.export, from format validation through the per-entry loop of   *)
(* _export_requirements_txt / _export_json to the single _output write.    *)
(*                                                                         *)
(* Python strings are sequences of one-character strings, so that          *)
(* formatting, splitting, stripping and the lexicographic order of         *)
(* sorted() are computed as the code computes them.  Python's None is the  *)
(* value None below.                                                       *)
(***************************************************************************)
EXTENDS Naturals, Sequences, FiniteSets, TLC

(***************************************************************************)
(* Bounds                                                                  *)
(***************************************************************************)
\* Largest number of resolved entries the resolver yields in one call.
MaxEntries == 2

(***************************************************************************)
(* Python str primitives                                                   *)
(***************************************************************************)
None == <<"None">>

\* Printable ASCII, code points 32..95 and 97..126 in order.
AsciiLow ==
  <<" ", "!", "\"", "#", "$", "%", "&", "'", "(", ")", "*", "+", ",", "-",
    ".", "/", "0", "1", "2", "3", "4", "5", "6", "7", "8", "9", ":", ";",
    "<", "=", ">", "?", "@", "A", "B", "C", "D", "E", "F", "G", "H", "I",
    "J", "K", "L", "M", "N", "O", "P", "Q", "R", "S", "T", "U", "V", "W",
    "X", "Y", "Z", "[", "\\", "]", "^", "_">>

AsciiHigh ==
  <<"a", "b", "c", "d", "e", "f", "g", "h", "i", "j", "k", "l", "m", "n",
    "o", "p", "q", "r", "s", "t", "u", "v", "w", "x", "y", "z", "{", "|",
    "}", "~">>

Chars ==
  {AsciiLow[i] : i \in 1..Len(AsciiLow)} \cup
  {AsciiHigh[i] : i \in 1..Len(AsciiHigh)} \cup {"\n"}

\* ord(c): the code point str comparison goes by.
Ord ==
  [c \in Chars |->
     IF c = "\n" THEN 10
     ELSE IF \E i \in 1..Len(AsciiLow) : AsciiLow[i] = c
     THEN 31 + (CHOOSE i \in 1..Len(AsciiLow) : AsciiLow[i] = c)
     ELSE 96 + (CHOOSE i \in 1..Len(AsciiHigh) : AsciiHigh[i] = c)]

\* s < t for two str values (code-point lexicographic order).
LexLess(s, t) ==
  LET n == IF Len(s) < Len(t) THEN Len(s) ELSE Len(t)
      d == {i \in 1..n : s[i] /= t[i]}
  IN  IF d = {} THEN Len(s) < Len(t)
      ELSE LET k == CHOOSE i \in d : \A j \in d : i <= j
           IN  Ord[s[k]] < Ord[t[k]]

\* Positions of character c in s.
Positions(c, s) == {i \in 1..Len(s) : s[i] = c}

\* c in s
Contains(c, s) == Positions(c, s) /= {}

\* Position of the first c in s (s contains c).
FirstPos(c, s) == CHOOSE i \in Positions(c, s) : \A j \in Positions(c, s) : i <= j

\* s.startswith(p)
StartsWith(s, p) == Len(p) <= Len(s) /\ SubSeq(s, 1, Len(p)) = p

\* s.split(c): the list of the pieces of s between the occurrences of c.
RECURSIVE Split(_, _)
Split(s, c) ==
  IF ~Contains(c, s) THEN <<s>>
  ELSE LET k == FirstPos(c, s)
       IN  <<SubSeq(s, 1, k - 1)>> \o Split(SubSeq(s, k + 1, Len(s)), c)

\* s.split(c, 1)[1]: what follows the first c.
AfterFirst(s, c) == SubSeq(s, FirstPos(c, s) + 1, Len(s))

IsSpace(c) == c \in {" ", "\n"}

\* s.strip()
Strip(s) ==
  LET keep == {i \in 1..Len(s) : ~IsSpace(s[i])}
  IN  IF keep = {} THEN <<>>
      ELSE SubSeq(s, CHOOSE i \in keep : \A j \in keep : i <= j,
                     CHOOSE i \in keep : \A j \in keep : j <= i)

\* s.rstrip("/")
RStripSlash(s) ==
  LET keep == {i \in 1..Len(s) : s[i] /= "/"}
  IN  IF keep = {} THEN <<>>
      ELSE SubSeq(s, 1, CHOOSE i \in keep : \A j \in keep : j <= i)

\* sep.join(seq)
RECURSIVE Join(_, _)
Join(sep, seq) ==
  IF seq = <<>> THEN <<>>
  ELSE IF Len(seq) = 1 THEN seq[1]
  ELSE seq[1] \o sep \o Join(sep, Tail(seq))

\* Mutant of sorted: the lines in descending order.
RECURSIVE sortedDescending(_)
sortedDescending(S) ==
  IF S = {} THEN <<>>
  ELSE LET m == CHOOSE x \in S : \A y \in S \ {x} : LexLess(y, x)
       IN  <<m>> \o sortedDescending(S \ {m})

\* sorted(S) for a set of str.
RECURSIVE sorted(_)
sorted(S) ==
  IF S = {} THEN <<>>
  ELSE LET m == CHOOSE x \in S : \A y \in S \ {x} : LexLess(x, y)
       IN  <<m>> \o sorted(S \ {m})

\* Truth value of an optional str (None and "" are false).
Truthy(s) == s /= None /\ s /= <<>>

\* urllib.parse.urlsplit(url).scheme for a url of the form scheme://netloc/path
UrlScheme(url) ==
  IF Contains(":", url) THEN SubSeq(url, 1, FirstPos(":", url) - 1) ELSE <<>>

\* urllib.parse.urlsplit(url).netloc: what follows "//" up to the next "/".
UrlNetloc(url) ==
  LET rest == IF Contains(":", url) THEN AfterFirst(url, ":") ELSE url
  IN  IF StartsWith(rest, <<"/", "/">>)
      THEN LET r == SubSeq(rest, 3, Len(rest))
           IN  IF Contains("/", r) THEN SubSeq(r, 1, FirstPos("/", r) - 1) ELSE r
      ELSE <<>>

(***************************************************************************)
(* Exporter class constants                                                *)
(***************************************************************************)
FORMAT_REQUIREMENTS_TXT == "requirements.txt"

FORMAT_JSON == "json"

ACCEPTED_FORMATS == <<FORMAT_REQUIREMENTS_TXT, FORMAT_JSON>>

ALLOWED_HASH_ALGORITHMS ==
  { <<"s", "h", "a", "2", "5", "6">>,
    <<"s", "h", "a", "3", "8", "4">>,
    <<"s", "h", "a", "5", "1", "2">> }

(***************************************************************************)
(* Inputs: the Pool, the resolved entries and the call's arguments         *)
(***************************************************************************)
\* Repositories: url and authenticated_url.
RepoM ==
  [ url |-> <<"h", "t", "t", "p", "s", ":", "/", "/", "m", "/", "s">>,
    authenticated_url |->
      <<"h", "t", "t", "p", "s", ":", "/", "/", "u", ":", "p", "@", "m",
      "/", "s">> ]

RepoX ==
  [ url |-> <<"h", "t", "t", "p", ":", "/", "/", "x", "/", "s">>,
    authenticated_url |->
      <<"h", "t", "t", "p", ":", "/", "/", "u", ":", "p", "@", "x", "/",
      "s">> ]

RepoZ ==
  [ url |-> <<"h", "t", "t", "p", "s", ":", "/", "/", "z", "/", "s">>,
    authenticated_url |-> <<"h", "t", "t", "p", "s", ":", "/", "/", "z", "/", "s">> ]

\* The Pool: has_default() and the ordered repositories; with has_default the
\* first repository is the default one.
Pools ==
  { [has_default |-> d, repositories |-> rs] :
      d \in BOOLEAN, rs \in { <<RepoM, RepoX, RepoZ>>, <<RepoX, RepoM, RepoZ>> } }

\* dependency.marker.only("sys_platform"): the projection's class, and its
\* value (SingleMarker) or its clauses (MultiMarker, MarkerUnion).
AnyMarker == [type |-> "AnyMarker", value |-> None, markers |-> <<>>]

SingleMarker(v) == [type |-> "SingleMarker", value |-> v, markers |-> <<>>]

MultiMarker(ms) == [type |-> "MultiMarker", value |-> None, markers |-> ms]

MarkerUnion(ms) == [type |-> "MarkerUnion", value |-> None, markers |-> ms]

\* A Dependency: to_pep_508(with_extras=False), the four direct-reference
\* predicates, marker.only("sys_platform") and the python constraint of the
\* marker.
Dep(req, vcs, url, only) ==
  [ requirement |-> req, is_vcs |-> vcs, is_url |-> url, is_file |-> FALSE,
    is_directory |-> FALSE, sys_platform_marker |-> only,
    python_constraint |-> <<"*">> ]

\* A Package: name, version, develop, source_url and files.
Pkg(name, version, develop, source_url, files) ==
  [ name |-> name, version |-> version, develop |-> develop,
    source_url |-> source_url, files |-> files ]

File(name, hash) == [file |-> name, hash |-> hash]

\* The resolved entries locker.get_project_dependency_packages may yield.
\* a: a plain registry package.
EntryPlain ==
  [ dependency |-> Dep(<<"a">>, FALSE, FALSE, AnyMarker),
    package |-> Pkg(<<"a">>, <<"1">>, FALSE, None, <<>>) ]

\* b: editable, from repository M, a marker, one prefixed and one bare hash.
EntryEditable ==
  [ dependency |->
      Dep(<<"b", ";", " ", "s", "y", "s", "_", "p", "l", "a", "t", "f",
          "o", "r", "m", " ", "=", "=", " ", "\"", "w", "\"">>,
          FALSE, FALSE, SingleMarker(<<"w">>)),
    package |->
      Pkg(<<"b">>, <<"2">>, TRUE,
          <<"h", "t", "t", "p", "s", ":", "/", "/", "m", "/", "s">>,
          << File("b.whl", <<"s", "h", "a", "2", "5", "6", ":", "a", "b">>),
             File("b.tgz", <<"c", "d">>) >>) ]

\* c: from repository X (http, trailing slash), a conjunction of platform
\* clauses, its only hash of an algorithm that is not allowed.
EntryHttp ==
  [ dependency |->
      Dep(<<"c", ";", " ", "s", "y", "s", "_", "p", "l", "a", "t", "f",
          "o", "r", "m", " ", "=", "=", " ", "\"", "a", "\"", " ", "a",
          "n", "d", " ", "s", "y", "s", "_", "p", "l", "a", "t", "f", "o",
          "r", "m", " ", "=", "=", " ", "\"", "b", "\"">>,
          FALSE, FALSE,
          MultiMarker(<<SingleMarker(<<"a">>), SingleMarker(<<"b">>)>>)),
    package |->
      Pkg(<<"c">>, <<"1">>, FALSE,
          <<"h", "t", "t", "p", ":", "/", "/", "x", "/", "s", "/">>,
          << File("c.whl", <<"m", "d", "5", ":", "e", "e">>) >>) ]

\* d: from repository Z, a disjunction of platform clauses, one allowed and
\* one not allowed hash.
EntryUnion ==
  [ dependency |->
      Dep(<<"d", ";", " ", "s", "y", "s", "_", "p", "l", "a", "t", "f",
          "o", "r", "m", " ", "=", "=", " ", "\"", "a", "\"", " ", "o",
          "r", " ", "s", "y", "s", "_", "p", "l", "a", "t", "f", "o", "r",
          "m", " ", "=", "=", " ", "\"", "b", "\"">>,
          FALSE, FALSE,
          MarkerUnion(<<SingleMarker(<<"a">>), SingleMarker(<<"b">>)>>)),
    package |->
      Pkg(<<"d">>, <<"3">>, FALSE,
          <<"h", "t", "t", "p", "s", ":", "/", "/", "z", "/", "s">>,
          << File("d.whl", <<"s", "h", "a", "5", "1", "2", ":", "f", "0">>),
             File("d.tgz", <<"m", "d", "5", ":", "e", "e">>) >>) ]

\* e: from an index the Pool does not know.
EntryUnknownIndex ==
  [ dependency |-> Dep(<<"e">>, FALSE, FALSE, AnyMarker),
    package |->
      Pkg(<<"e">>, <<"1">>, FALSE,
          <<"h", "t", "t", "p", "s", ":", "/", "/", "q", "/", "s">>, <<>>) ]

\* f: a direct reference (vcs), editable, with a source url and a hash.
EntryVcs ==
  [ dependency |->
      Dep(<<"f", " ", "@", " ", "g", "i", "t", "+", "h", "t", "t", "p",
          "s", ":", "/", "/", "g", "/", "f", "@", "1">>,
          TRUE, FALSE, AnyMarker),
    package |->
      Pkg(<<"f">>, <<"1">>, TRUE,
          <<"h", "t", "t", "p", "s", ":", "/", "/", "m", "/", "s">>,
          << File("f.whl", <<"s", "h", "a", "2", "5", "6", ":", "a", "b">>) >>) ]

\* g: a hash string with two colons.
EntryTwoColons ==
  [ dependency |-> Dep(<<"g">>, FALSE, FALSE, AnyMarker),
    package |->
      Pkg(<<"g">>, <<"1">>, FALSE, None,
          << File("g.whl",
                  <<"s", "h", "a", "2", "5", "6", ":", "a", "b", ":", "c",
                  "d">>) >>) ]

\* h: a direct reference (url) without files.
EntryUrl ==
  [ dependency |->
      Dep(<<"h", " ", "@", " ", "h", "t", "t", "p", "s", ":", "/", "/",
          "h", "/", "h", "-", "1", ".", "w", "h", "l">>,
          FALSE, TRUE, AnyMarker),
    package |-> Pkg(<<"h">>, <<"1">>, FALSE, None, <<>>) ]

\* i: from repository M, its source url written with a trailing slash.
EntrySlash ==
  [ dependency |-> Dep(<<"i">>, FALSE, FALSE, AnyMarker),
    package |->
      Pkg(<<"i">>, <<"1">>, FALSE,
          <<"h", "t", "t", "p", "s", ":", "/", "/", "m", "/", "s", "/">>, <<>>) ]

Entries ==
  { EntryPlain, EntryEditable, EntryHttp, EntryUnion, EntryUnknownIndex,
    EntryVcs, EntryTwoColons, EntryUrl, EntrySlash }

\* The fmt argument: the two accepted formats and one that is not.
Formats == {FORMAT_REQUIREMENTS_TXT, FORMAT_JSON, "yaml"}

\* The output argument: an IO object (it has write) or a file name.
IO == "IO"

Outputs == {IO, "requirements.out"}

(***************************************************************************)
(* Per-entry formatting                                                    *)
(***************************************************************************)
\* is_direct_reference of both exporters.
is_direct_reference(dependency) ==
  \/ dependency.is_vcs
  \/ dependency.is_url
  \/ dependency.is_file
  \/ dependency.is_directory

\* `algorithm, h = h.split(":")` raises ValueError unless the split has
\* exactly two pieces.
HashUnpackRaises(h) == Contains(":", h) /\ Len(Split(h, ":")) /= 2

\* The algorithm of a hash string: "sha256" unless the string has a colon.
HashAlgorithm(h) ==
  IF Contains(":", h) THEN Split(h, ":")[1]
  ELSE <<"s", "h", "a", "2", "5", "6">>

\* The digest of a hash string.
HashDigest(h) == IF Contains(":", h) THEN Split(h, ":")[2] ELSE h

\* The `continue` of the hash loop: a prefixed hash whose algorithm is not
\* allowed is skipped.
HashSkipped(h) == Contains(":", h) /\ HashAlgorithm(h) \notin ALLOWED_HASH_ALGORITHMS

\* "{}:{}".format(algorithm, h)
RenderHash(h) == HashAlgorithm(h) \o <<":">> \o HashDigest(h)

\* The hash loop raises at the first file whose hash does not unpack.
HashesRaise(package, with_hashes) ==
  /\ package.files /= <<>>
  /\ with_hashes
  /\ \E i \in 1..Len(package.files) : HashUnpackRaises(package.files[i].hash)

\* The list `hashes` of _export_requirements_txt after its hash loop.
RECURSIVE TxtHashes(_)
TxtHashes(files) ==
  IF files = <<>> THEN <<>>
  ELSE IF HashSkipped(Head(files).hash) THEN TxtHashes(Tail(files))
  ELSE <<RenderHash(Head(files).hash)>> \o TxtHashes(Tail(files))

\* The dict `hashes` of _export_json after its hash loop: file name to
\* rendered hash, a later file of the same name replacing an earlier one.
JsonHashes(package, with_hashes) ==
  IF package.files /= <<>> /\ with_hashes
  THEN LET kept == {i \in 1..Len(package.files) :
                      ~HashSkipped(package.files[i].hash)}
           last(fn) == CHOOSE i \in kept :
                         /\ package.files[i].file = fn
                         /\ \A j \in kept : package.files[j].file = fn => j <= i
       IN  [fn \in {package.files[i].file : i \in kept} |->
              RenderHash(package.files[last(fn)].hash)]
  ELSE << >>

\* The " \\\n    --hash=..." continuation lines appended for the list hashes.
RECURSIVE HashLines(_)
HashLines(hashes) ==
  IF hashes = <<>> THEN <<>>
  ELSE <<" ", " ", " ", " ", "-", "-", "h", "a", "s", "h", "=">> \o Head(hashes)
       \o (IF Len(hashes) > 1 THEN <<" ", "\\", "\n">> ELSE <<>>)
       \o HashLines(Tail(hashes))

\* The hash block appended to an entry's line.
HashBlock(package, with_hashes) ==
  IF package.files /= <<>> /\ with_hashes
  THEN LET hashes == TxtHashes(package.files)
       IN  IF hashes /= <<>> THEN <<" ", "\\", "\n">> \o HashLines(hashes)
           ELSE <<>>
  ELSE <<>>

\* `line = ""`, then `line += "-e "` for a develop package.
LineStart(package) == IF package.develop THEN <<"-", "e", " ">> ELSE <<>>

\* Mutant of LineBody: a direct reference is pinned like a registry package.
LineBodyPinned(line, dependency, package) ==
  package.name \o <<"=", "=">> \o package.version

\* The assignment to `line` that follows: the requirement for a direct
\* reference, else name==version and the requirement's marker text.  It
\* assigns, so what `line` held is gone.
LineBody(line, dependency, package) ==
  IF is_direct_reference(dependency) THEN dependency.requirement
  ELSE LET requirement == dependency.requirement
           pinned == package.name \o <<"=", "=">> \o package.version
       IN  IF Contains(";", requirement)
           THEN LET markers == Strip(AfterFirst(requirement, ";"))
                IN  IF markers /= <<>> THEN pinned \o <<";", " ">> \o markers
                    ELSE pinned
           ELSE pinned

\* The line _export_requirements_txt adds to dependency_lines for an entry.
FormatLine(entry, with_hashes) ==
  LineBody(LineStart(entry.package), entry.dependency, entry.package)
    \o HashBlock(entry.package, with_hashes)

\* The source url an entry adds to `indexes`, as a set.
CollectedIndex(entry) ==
  IF ~is_direct_reference(entry.dependency) /\ Truthy(entry.package.source_url)
  THEN {entry.package.source_url}
  ELSE {}

\* sys_platform_constraint of _export_json.
SysPlatformConstraint(marker) ==
  IF marker.type = "MultiMarker" /\ marker.markers /= <<>>
  THEN marker.markers[Len(marker.markers)].value
  ELSE None

\* The record _export_json appends for an entry.
JsonRecord(entry, with_hashes) ==
  [ name |-> entry.package.name,
    version |-> entry.package.version,
    dev |-> entry.package.develop,
    source_url |-> entry.package.source_url,
    sys_platform |-> SysPlatformConstraint(entry.dependency.sys_platform_marker),
    python_version |-> entry.dependency.python_constraint,
    hashes |-> JsonHashes(entry.package, with_hashes) ]

(***************************************************************************)
(* The index header                                                        *)
(***************************************************************************)
\* The positions in pool.repositories whose url is the index, its trailing
\* slashes stripped.
Matching(pool, index) ==
  {r \in 1..Len(pool.repositories) :
     pool.repositories[r].url = RStripSlash(index)}

\* repository.authenticated_url if with_credentials else repository.url
RepoUrl(repository, with_credentials) ==
  IF with_credentials THEN repository.authenticated_url ELSE repository.url

IndexUrlLine(url) ==
  <<"-", "-", "i", "n", "d", "e", "x", "-", "u", "r", "l", " ">> \o url

TrustedHostLine(netloc) ==
  <<"-", "-", "t", "r", "u", "s", "t", "e", "d", "-", "h", "o", "s", "t", " ">>
    \o netloc

ExtraIndexLine(url) ==
  <<"-", "-", "e", "x", "t", "r", "a", "-", "i", "n", "d", "e", "x", "-",
    "u", "r", "l", " ">> \o url

\* Mutant of HeaderStep: the default repository gets no branch of its own.
HeaderStepNoDefault(indexes_header, index, pool, with_credentials) ==
  IF Matching(pool, index) = {} THEN indexes_header
  ELSE LET r == CHOOSE i \in Matching(pool, index) :
                  \A j \in Matching(pool, index) : i <= j
           url == RepoUrl(pool.repositories[r], with_credentials)
       IN  indexes_header
           \o (IF UrlScheme(url) = <<"h", "t", "t", "p">>
               THEN TrustedHostLine(UrlNetloc(url)) \o <<"\n">>
               ELSE <<>>)
           \o ExtraIndexLine(url) \o <<"\n">>

\* One iteration of `for index in sorted(indexes)`: indexes_header after it.
HeaderStep(indexes_header, index, pool, with_credentials) ==
  IF Matching(pool, index) = {} THEN indexes_header
  ELSE LET r == CHOOSE i \in Matching(pool, index) :
                  \A j \in Matching(pool, index) : i <= j
           url == RepoUrl(pool.repositories[r], with_credentials)
       IN  IF pool.has_default /\ r = 1
           THEN IndexUrlLine(url) \o <<"\n">>
           ELSE indexes_header
                \o (IF UrlScheme(url) = <<"h", "t", "t", "p">>
                    THEN TrustedHostLine(UrlNetloc(url)) \o <<"\n">>
                    ELSE <<>>)
                \o ExtraIndexLine(url) \o <<"\n">>

\* The loop over the sorted indexes, from the header built so far.
RECURSIVE HeaderLoop(_, _, _, _)
HeaderLoop(indexes_header, todo, pool, with_credentials) ==
  IF todo = <<>> THEN indexes_header
  ELSE HeaderLoop(HeaderStep(indexes_header, Head(todo), pool, with_credentials),
                  Tail(todo), pool, with_credentials)

\* indexes_header of _export_requirements_txt.
IndexesHeader(indexes, pool, with_credentials) ==
  HeaderLoop(<<>>, sorted(indexes), pool, with_credentials)

\* content once the body is joined: the sorted lines and a newline.
JoinBody(dependency_lines) == Join(<<"\n">>, sorted(dependency_lines)) \o <<"\n">>

\* content once the header is put before it.
WithHeader(content, indexes, pool, with_credentials) ==
  IF indexes /= {}
  THEN IndexesHeader(indexes, pool, with_credentials) \o <<"\n">> \o content
  ELSE content

\* json.dumps({"dependencies": dependencies_list}, sort_keys=True): the
\* document, its text form left aside.
JsonDocument(dependencies_list) == [dependencies |-> dependencies_list]

\* poetry.utils._compat.decode: a str is returned as it is.
decode(content) == content

\* Mutant of OutputWrite: the file is written whatever output is.
OutputWriteFileOnly(output, decoded) ==
  [dest |-> "file", target |-> output, data |-> decoded]

\* The write _output makes: to the stream when output has write, else to the
\* file cwd / output.
OutputWrite(output, decoded) ==
  IF output = IO THEN [dest |-> "stream", target |-> IO, data |-> decoded]
  ELSE [dest |-> "file", target |-> output, data |-> decoded]

(***************************************************************************)
(* State                                                                   *)
(***************************************************************************)
VARIABLES
  fmt,               \* export's fmt argument
  output,            \* export's output argument
  with_hashes,       \* export's with_hashes argument
  with_credentials,  \* export's with_credentials argument
  pool,              \* self._poetry.pool
  pc,                \* where the call is
  queried,           \* the resolver has been asked for the entries
  seen,              \* the entries the resolver has yielded so far
  line,              \* `line` at the end of the last iteration
  dependency_lines,  \* the set dependency_lines
  indexes,           \* the set indexes
  dependencies_list, \* the list dependencies_list of _export_json
  content,           \* the content to output
  writes,            \* the writes made, to the stream or to the file
  error              \* the exception the call raised

vars ==
  << fmt, output, with_hashes, with_credentials, pool, pc, queried, seen, line,
     dependency_lines, indexes, dependencies_list, content, writes, error >>

args == << fmt, output, with_hashes, with_credentials, pool >>

NoError == [type |-> "", message |-> <<>>]

\* getattr(self, "_export_" + fmt.replace(".", "_")) finds no such method.
NoExporter(f) ==
  [type |-> "AttributeError", message |-> <<"Exporter has no attribute _export_{}", f>>]

InvalidFormat(f) ==
  [ type |-> "ValueError",
    message |-> <<"Invalid export format: {}. Valid formats are: {}", f,
                  ACCEPTED_FORMATS>> ]

UnpackError ==
  [type |-> "ValueError", message |-> <<"too many values to unpack (expected 2)">>]

Init ==
  /\ fmt \in Formats
  /\ output \in Outputs
  /\ with_hashes \in BOOLEAN
  /\ with_credentials \in BOOLEAN
  /\ pool \in Pools
  /\ pc = "export"
  /\ queried = FALSE
  /\ seen = <<>>
  /\ line = <<>>
  /\ dependency_lines = {}
  /\ indexes = {}
  /\ dependencies_list = <<>>
  /\ content = <<>>
  /\ writes = <<>>
  /\ error = NoError

(***************************************************************************)
(* Actions                                                                 *)
(***************************************************************************)
\* Mutant of Rejected: no format is rejected.
RejectedNone(f) == FALSE

\* fmt not in self.ACCEPTED_FORMATS
Rejected(f) == \A i \in 1..Len(ACCEPTED_FORMATS) : ACCEPTED_FORMATS[i] /= f

\* Exporter.export: reject the format, or enter the format's exporter and
\* ask the resolver for the entries.
Export ==
  /\ pc = "export"
  /\ IF Rejected(fmt)
     THEN /\ pc' = "failed"
          /\ error' = InvalidFormat(fmt)
          /\ UNCHANGED queried
     ELSE IF fmt = FORMAT_REQUIREMENTS_TXT \/ fmt = FORMAT_JSON
     THEN /\ pc' = IF fmt = FORMAT_REQUIREMENTS_TXT THEN "txt_loop" ELSE "json_loop"
          /\ queried' = TRUE
          /\ UNCHANGED error
     ELSE /\ pc' = "failed"
          /\ error' = NoExporter(fmt)
          /\ UNCHANGED queried
  /\ UNCHANGED << args, seen, line, dependency_lines, indexes,
                  dependencies_list, content, writes >>

\* One iteration of the loop of _export_requirements_txt, on the entry the
\* resolver yields next.
TxtEntry ==
  /\ pc = "txt_loop"
  /\ Len(seen) < MaxEntries
  /\ \E entry \in Entries :
       /\ seen' = Append(seen, entry)
       /\ IF HashesRaise(entry.package, with_hashes)
          THEN /\ pc' = "failed"
               /\ error' = UnpackError
               /\ indexes' = indexes \cup CollectedIndex(entry)
               /\ UNCHANGED << line, dependency_lines >>
          ELSE /\ line' = FormatLine(entry, with_hashes)
               /\ dependency_lines' = dependency_lines \cup {FormatLine(entry, with_hashes)}
               /\ indexes' = indexes \cup CollectedIndex(entry)
               /\ UNCHANGED << pc, error >>
  /\ UNCHANGED << args, queried, dependencies_list, content, writes >>

\* The resolver has no more entries: join the sorted lines.
TxtJoin ==
  /\ pc = "txt_loop"
  /\ content' = content \o JoinBody(dependency_lines)
  /\ pc' = "txt_header"
  /\ UNCHANGED << args, queried, seen, line, dependency_lines, indexes,
                  dependencies_list, writes, error >>

\* `if indexes:` put the index header before the content.
TxtHeader ==
  /\ pc = "txt_header"
  /\ content' = WithHeader(content, indexes, pool, with_credentials)
  /\ pc' = "output"
  /\ UNCHANGED << args, queried, seen, line, dependency_lines, indexes,
                  dependencies_list, writes, error >>

\* One iteration of the loop of _export_json.
JsonEntry ==
  /\ pc = "json_loop"
  /\ Len(seen) < MaxEntries
  /\ \E entry \in Entries :
       /\ seen' = Append(seen, entry)
       /\ IF HashesRaise(entry.package, with_hashes)
          THEN /\ pc' = "failed"
               /\ error' = UnpackError
               /\ UNCHANGED dependencies_list
          ELSE /\ dependencies_list' =
                    Append(dependencies_list, JsonRecord(entry, with_hashes))
               /\ UNCHANGED << pc, error >>
  /\ UNCHANGED << args, queried, line, dependency_lines, indexes, content, writes >>

\* The resolver has no more entries: serialize the document.
JsonDump ==
  /\ pc = "json_loop"
  /\ content' = JsonDocument(dependencies_list)
  /\ pc' = "output"
  /\ UNCHANGED << args, queried, seen, line, dependency_lines, indexes,
                  dependencies_list, writes, error >>

\* Exporter._output
Output ==
  /\ pc = "output"
  /\ writes' = Append(writes, OutputWrite(output, decode(content)))
  /\ pc' = "done"
  /\ UNCHANGED << args, queried, seen, line, dependency_lines, indexes,
                  dependencies_list, content, error >>

Next ==
  \/ Export
  \/ TxtEntry
  \/ TxtJoin
  \/ TxtHeader
  \/ JsonEntry
  \/ JsonDump
  \/ Output

Spec == Init /\ [][Next]_vars

(***************************************************************************)
(* Properties                                                              *)
(***************************************************************************)
IsTxt == fmt = FORMAT_REQUIREMENTS_TXT

IsJson == fmt = FORMAT_JSON

\* The entry of the last iteration.
Last == seen[Len(seen)]

\* An iteration has completed and the call has not raised.
Rendered == pc /= "failed" /\ seen /= <<>>

\* The lines of the text output.
OutputLines == Split(content, "\n")

DashE == <<"-", "e", " ">>

Continuation == <<" ", "\\", "\n">>

HashOption == <<" ", " ", " ", " ", "-", "-", "h", "a", "s", "h", "=">>

Pinned(package) == package.name \o <<"=", "=">> \o package.version

\* The hash rule as the specification words it: split at the first colon.
ClaimedAlgorithm(h) ==
  IF Contains(":", h) THEN SubSeq(h, 1, FirstPos(":", h) - 1)
  ELSE <<"s", "h", "a", "2", "5", "6">>

ClaimedDigest(h) == IF Contains(":", h) THEN AfterFirst(h, ":") ELSE h

ClaimedKept(files) ==
  {i \in 1..Len(files) : ClaimedAlgorithm(files[i].hash) \in ALLOWED_HASH_ALGORITHMS}

RECURSIVE ClaimedHashes(_)
ClaimedHashes(files) ==
  IF files = <<>> THEN <<>>
  ELSE (IF ClaimedAlgorithm(Head(files).hash) \in ALLOWED_HASH_ALGORITHMS
        THEN <<ClaimedAlgorithm(Head(files).hash) \o <<":">>
                 \o ClaimedDigest(Head(files).hash)>>
        ELSE <<>>)
       \o ClaimedHashes(Tail(files))

\* The source urls of the registry entries seen so far.
RegistryUrls ==
  {seen[i].package.source_url :
     i \in {j \in 1..Len(seen) : /\ ~is_direct_reference(seen[j].dependency)
                                 /\ Truthy(seen[j].package.source_url)}}

\* C1: in the requirements.txt export the line of an entry begins with "-e "
\* exactly when the entry's package has the develop flag.
C1_EditablePrefix ==
  (IsTxt /\ Rendered) => (StartsWith(line, DashE) <=> Last.package.develop)

\* C2: every collected index url that matches a repository which is not the
\* default one has its --extra-index-url line in the output, with a
\* --trusted-host line right before it exactly when the url's scheme is http,
\* whatever else was collected.
C2_ExtraIndexEmitted ==
  (IsTxt /\ pc = "done") =>
    \A index \in indexes :
      \A r \in Matching(pool, index) :
        ( /\ \A j \in Matching(pool, index) : r <= j
          /\ ~(pool.has_default /\ r = 1) ) =>
        LET url == RepoUrl(pool.repositories[r], with_credentials)
            http == UrlScheme(url) = <<"h", "t", "t", "p">>
        IN  \E k \in 1..Len(OutputLines) :
              /\ OutputLines[k] = ExtraIndexLine(url)
              /\ (k > 1 /\ OutputLines[k - 1] = TrustedHostLine(UrlNetloc(url))) <=> http

\* A collected index url matches the Pool's default repository.
DefaultCollected ==
  pool.has_default /\ \E index \in indexes : 1 \in Matching(pool, index)

\* C3: when a collected index url matches the default repository, the output
\* has exactly one --index-url line, for that repository's url (the
\* authenticated one with credentials), and no --extra-index-url or
\* --trusted-host line for it.
C3_DefaultIsIndexUrl ==
  (IsTxt /\ pc = "done" /\ DefaultCollected) =>
    LET default == pool.repositories[1]
        at == {k \in 1..Len(OutputLines) : StartsWith(OutputLines[k], IndexUrlLine(<<>>))}
    IN  /\ Cardinality(at) = 1
        /\ \A k \in at :
             OutputLines[k] = IndexUrlLine(IF with_credentials
                                           THEN default.authenticated_url
                                           ELSE default.url)
        /\ \A k \in 1..Len(OutputLines) :
             \A u \in {default.url, default.authenticated_url} :
               /\ OutputLines[k] /= ExtraIndexLine(u)
               /\ OutputLines[k] /= TrustedHostLine(UrlNetloc(u))

\* C3 witness: the default repository, of scheme http, is collected along
\* with another index url, and the output is written.
C3_Witness ==
  /\ IsTxt /\ pc = "done" /\ DefaultCollected
  /\ Cardinality(indexes) >= 2
  /\ UrlScheme(pool.repositories[1].url) = <<"h", "t", "t", "p">>

\* C4: a hash string renders by the first-colon rule (no colon: sha256 and the
\* string; else algorithm and digest, dropped when the algorithm is not
\* allowed), in both formats; no hash string makes the export fail; an entry
\* whose hashes are all dropped has no hash block.
C4_HashNormalization ==
  /\ error /= UnpackError
  /\ (IsTxt /\ Rendered) =>
       LET hs == IF with_hashes THEN ClaimedHashes(Last.package.files) ELSE <<>>
           body == LineBody(LineStart(Last.package), Last.dependency, Last.package)
       IN  line = body \o
             (IF hs = <<>> THEN <<>>
              ELSE Continuation \o
                   Join(Continuation, [i \in 1..Len(hs) |-> HashOption \o hs[i]]))
  /\ (IsJson /\ Rendered /\ pc = "json_loop") =>
       LET files == Last.package.files
           kept == IF with_hashes THEN ClaimedKept(files) ELSE {}
           hashes == dependencies_list[Len(dependencies_list)].hashes
       IN  /\ DOMAIN hashes = {files[i].file : i \in kept}
           /\ \A i \in kept :
                hashes[files[i].file] =
                  ClaimedAlgorithm(files[i].hash) \o <<":">> \o ClaimedDigest(files[i].hash)

\* C5, as claimed: the line of a direct reference is its requirement string
\* exactly, whatever with_hashes and the files are, never name==version, and
\* its source url is not collected.
C5_DirectReferenceVerbatim ==
  /\ (IsTxt /\ Rendered /\ is_direct_reference(Last.dependency)) =>
       /\ line = Last.dependency.requirement
       /\ ~StartsWith(line, Pinned(Last.package))
  /\ IsTxt => indexes \subseteq RegistryUrls

\* C5, amended: the line of a direct reference that is rendered is its
\* requirement string followed by nothing but the hash block, one --hash per
\* kept hash, and is the requirement string exactly when with_hashes is off or
\* no hash is kept; it is never name==version and its source url is not
\* collected.
C5_DirectReferenceLine ==
  /\ (IsTxt /\ Rendered /\ is_direct_reference(Last.dependency)) =>
       LET req == Last.dependency.requirement
           kept == IF with_hashes
                   THEN Cardinality(ClaimedKept(Last.package.files)) ELSE 0
           rest == SubSeq(line, Len(req) + 1, Len(line))
       IN  /\ StartsWith(line, req)
           /\ kept = 0 => rest = <<>>
           /\ kept > 0 => /\ StartsWith(rest, Continuation \o HashOption)
                          /\ Len(Split(rest, "\n")) = kept + 1
                          /\ \A k \in 2..(kept + 1) :
                               StartsWith(Split(rest, "\n")[k], HashOption)
           /\ ~StartsWith(line, Pinned(Last.package))
  /\ IsTxt => indexes \subseteq RegistryUrls

\* C5 witness: an editable direct reference with a source url and a kept hash
\* has been rendered with hashes on.
C5_Witness ==
  /\ IsTxt /\ Rendered /\ pc = "txt_loop"
  /\ is_direct_reference(Last.dependency)
  /\ with_hashes
  /\ ClaimedKept(Last.package.files) /= {}
  /\ Truthy(Last.package.source_url)
  /\ line /= Last.dependency.requirement

\* C6: the record's sys_platform is the value of the last clause when the
\* platform projection is a conjunction or a disjunction of clauses, and is
\* null only when the marker has no platform clause.
C6_LastPlatformClause ==
  (IsJson /\ Rendered /\ pc = "json_loop") =>
    LET marker == Last.dependency.sys_platform_marker
        record == dependencies_list[Len(dependencies_list)]
    IN  /\ marker.type \in {"MultiMarker", "MarkerUnion"} =>
             record.sys_platform = marker.markers[Len(marker.markers)].value
        /\ record.sys_platform = None => marker.type = "AnyMarker"

\* The lines of the entries seen so far.
EntryLines == {FormatLine(seen[i], with_hashes) : i \in 1..Len(seen)}

\* The orderings of the set L that are strictly ascending.
Ascending(L) ==
  {s \in [1..Cardinality(L) -> L] :
     \A i, j \in 1..Cardinality(L) : i < j => LexLess(s[i], s[j])}

\* C7: the body of the text output is the distinct lines of the entries, each
\* once, in ascending order, joined by newlines, with a trailing newline; the
\* whole output is decided by the set of entries, not by their order or
\* multiplicity.
C7_SortedDistinctBody ==
  (IsTxt /\ pc \in {"txt_header", "output", "done"}) =>
    /\ Ascending(EntryLines) /= {}
    /\ LET s == CHOOSE q \in Ascending(EntryLines) : TRUE
           body == Join(<<"\n">>, s) \o <<"\n">>
           head == IF RegistryUrls = {} THEN <<>>
                   ELSE IndexesHeader(RegistryUrls, pool, with_credentials) \o <<"\n">>
       IN  IF pc = "txt_header" THEN content = body
           ELSE content = head \o body

\* C7 witness: two entries arrived with the greater line first, and the
\* output is written.
C7_Witness ==
  /\ IsTxt /\ pc = "done"
  /\ Len(seen) >= 2
  /\ LexLess(FormatLine(seen[2], with_hashes), FormatLine(seen[1], with_hashes))
  /\ writes[1].data = content

\* C8: a call that returns has made exactly one write, of the whole content,
\* to the stream when output can write and else to the file, after every
\* entry was formatted; before that, and in a call that fails, nothing is
\* written.
C8_SingleFinalWrite ==
  /\ pc = "done" =>
       /\ Len(writes) = 1
       /\ writes[1].data = content
       /\ writes[1].dest = (IF output = IO THEN "stream" ELSE "file")
       /\ writes[1].target = output
       /\ IsTxt => EntryLines = dependency_lines
       /\ IsJson => Len(dependencies_list) = Len(seen)
  /\ pc /= "done" => writes = <<>>

\* C8 witness: a call on two entries has returned after writing the file.
C8_Witness == pc = "done" /\ Len(seen) >= 2 /\ output /= IO /\ Len(writes) = 1

\* C9: a format that is not accepted fails with an error naming the format
\* and the accepted formats, before the resolver is asked and without a
\* write.
C9_RejectedFormat ==
  (fmt \notin {"requirements.txt", "json"} /\ pc /= "export") =>
    /\ pc = "failed"
    /\ error.type = "ValueError"
    /\ error.message = <<"Invalid export format: {}. Valid formats are: {}", fmt,
                         <<"requirements.txt", "json">> >>
    /\ ~queried
    /\ seen = <<>>
    /\ writes = <<>>

\* C9 witness: the call with format yaml has failed.
C9_Witness == fmt = "yaml" /\ pc = "failed"

\* An index-configuration line is in the output.
IndexLineEmitted ==
  \E k \in 1..Len(OutputLines) :
    \/ StartsWith(OutputLines[k], IndexUrlLine(<<>>))
    \/ StartsWith(OutputLines[k], ExtraIndexLine(<<>>))
    \/ StartsWith(OutputLines[k], TrustedHostLine(<<>>))

\* C10: the output begins with a header block and a blank line exactly when
\* an index-configuration line is emitted; when no collected index url
\* matches a repository the output is the body alone.
C10_HeaderOnlyWithIndexLines ==
  (IsTxt /\ pc = "done") =>
    LET body == JoinBody(dependency_lines)
        header == IndexesHeader(indexes, pool, with_credentials)
    IN  /\ IndexLineEmitted => content = header \o <<"\n">> \o body
        /\ ~IndexLineEmitted => content = body

====
